---------------------------- MODULE Spec2Model ----------------------------
(***************************************************************************)
(* A model of platformstats.c: the report sections of print_all_stats, the *)
(* two-sample CPU load computation, the positional /proc/meminfo readers,  *)
(* the hwmon device lookup and the moving-average power sampling loop.     *)
(*                                                                         *)
(* Three specifications share the variables:                               *)
(*   Spec      one run of print_all_stats(verbose_flag, rate, duration);   *)
(*   LoadSpec  calculate_load applied to bounded pairs of CPU samples;     *)
(*   BufSpec   the moving-average buffer of print_ina260_power_info pushed *)
(*             an arbitrary number of times (more often than its capacity).*)
(*                                                                         *)
(* A double is modelled as an exact rational n/d, or NaN, or an infinity:  *)
(* every counter of the model is far below 2^53, where the conversions of  *)
(* calculate_load are exact.                                               *)
(***************************************************************************)
EXTENDS Integers, Sequences, FiniteSets, TLC

VARIABLES
  pc,             \* position in print_all_stats / the driver of LoadSpec, BufSpec
  started,        \* the report sections print_all_stats has called, in order
  duration,       \* parameter duration of print_all_stats
  heap,           \* the live heap buffers (malloc/calloc results not yet freed)
  num_cpus_conf,  \* get_nprocs_conf()
  cpu_id,         \* loop variable of print_cpu_utilization / print_cpu_frequency
  st0_0,          \* samples at T0, one per CPU id
  st0_1,          \* samples at T1, one per CPU id
  total_util,     \* st0_1[cpu].total_util as printed, one per CPU id
  pauses,         \* number of sleep() calls of the running function
  cpuLog,         \* what print_cpu_utilization did, in order
  ret,            \* return value of the function at its return statement
  meminfo,        \* the /proc/meminfo file the running reader opened
  memOut,         \* the values the running memory section printed
  hwmonTree,      \* the /sys/class/hwmon tree get_device_hwmon_id looked at
  stackName,      \* what device_name[] held when get_device_hwmon_id started
  target,         \* the device name get_device_hwmon_id looked for
  hwmon_id,       \* the id get_device_hwmon_id returned
  i,              \* loop variable of the power sampling loop / sysmon read index
  pos,            \* write cursor of the moving-average buffers
  len,            \* logical length of the moving-average buffers
  powerarr, power_sum, power_avg,
  currarr, curr_sum, curr_avg,
  volarr, vol_sum, vol_avg,
  total_power, total_current, total_voltage,
  lastRead,       \* what the last read_int/read_float_sysfs_entry call did
  pushed,         \* BufSpec: the values pushed so far
  avgs,           \* BufSpec: the averages returned so far
  inaLog,         \* what the sampling loop of print_ina260_power_info did
  filesOpened     \* every fopen of the sampling loop so far gave a file

cpuVars == <<num_cpus_conf, cpu_id, st0_0, st0_1, total_util, cpuLog>>
memVars == <<meminfo, memOut>>
hwmonVars == <<hwmonTree, stackName, target, hwmon_id>>
bufVars == <<pos, len, powerarr, power_sum, power_avg, currarr, curr_sum,
             curr_avg, volarr, vol_sum, vol_avg>>
inaVars == <<i, total_power, total_current, total_voltage>>
ghostVars == <<pushed, avgs, inaLog, filesOpened>>
vars == <<pc, started, duration, heap, pauses, ret, lastRead, cpuVars,
          memVars, hwmonVars, bufVars, inaVars, ghostVars>>

----------------------------------------------------------------------------
(* Bounds of the model.                                                    *)

MaxCpus == 2        \* configured CPUs: 1..MaxCpus
MaxTick == 1        \* LoadSpec: every counter of the first sample is in 0..MaxTick
MaxDuration == 3    \* duration: 0..MaxDuration
MaxHwmon == 3       \* hwmon device ids: a subset of 0..MaxHwmon-1
MaxMemLines == 45   \* /proc/meminfo has 0..MaxMemLines lines
MaxCap == 3         \* BufSpec: capacity 1..MaxCap
MaxPushes == 4      \* BufSpec: at most MaxPushes pushes

----------------------------------------------------------------------------
(* Integer helpers.                                                        *)

Abs(x) == IF x < 0 THEN -x ELSE x

\* C's integer division: the quotient truncated towards zero.
TruncDiv(a, b) ==
  IF (a < 0) = (b < 0) THEN Abs(a) \div Abs(b) ELSE -(Abs(a) \div Abs(b))

RECURSIVE SumSeq(_)
SumSeq(s) == IF s = <<>> THEN 0 ELSE Head(s) + SumSeq(Tail(s))

\* The last n elements of s (all of s when it is shorter).
LastN(s, n) == IF Len(s) <= n THEN s ELSE SubSeq(s, Len(s) - n + 1, Len(s))

----------------------------------------------------------------------------
(* double arithmetic of calculate_load: exact rationals, NaN, infinities.  *)

Dbl(n) == [k |-> "num", n |-> n, d |-> 1]
NaN == [k |-> "nan", n |-> 0, d |-> 0]
Inf(sign) == [k |-> "inf", n |-> sign, d |-> 0]

DblSub(a, b) == [k |-> "num", n |-> a.n * b.d - b.n * a.d, d |-> a.d * b.d]

DblMul(a, b) ==
  IF a.k = "nan" \/ b.k = "nan" THEN NaN
  ELSE IF a.k = "inf" \/ b.k = "inf"
       THEN (IF a.n = 0 \/ b.n = 0 THEN NaN
             ELSE Inf(IF (a.n < 0) = (b.n < 0) THEN 1 ELSE -1))
       ELSE [k |-> "num", n |-> a.n * b.n, d |-> a.d * b.d]

\* a / b for finite a and b: x/0 is an infinity, 0/0 is NaN (IEEE 754).
DblDiv(a, b) ==
  IF a.k = "nan" THEN NaN
  ELSE IF a.k = "inf" THEN a
  ELSE IF b.n = 0
       THEN (IF a.n = 0 THEN NaN ELSE Inf(IF a.n > 0 THEN 1 ELSE -1))
       ELSE [k |-> "num",
             n |-> (IF b.n < 0 THEN -1 ELSE 1) * a.n * b.d,
             d |-> Abs(b.n) * a.d]

DblAdd(a, b) ==
  IF a.k = "nan" THEN NaN
  ELSE IF a.k = "inf" THEN a
  ELSE [k |-> "num", n |-> a.n * b.d + b.n * a.d, d |-> a.d * b.d]

----------------------------------------------------------------------------
(* struct cpustat and calculate_load.                                      *)

CounterNames == {"user", "nice", "system", "idle", "iowait", "irq", "softirq"}

Stat(u, n, s, id, io, ir, so) ==
  [def |-> TRUE, user |-> u, nice |-> n, system |-> s, idle |-> id,
   iowait |-> io, irq |-> ir, softirq |-> so]

\* A struct cpustat of malloc'ed memory that no fscanf has filled.
UninitStat ==
  [def |-> FALSE, user |-> 0, nice |-> 0, system |-> 0, idle |-> 0,
   iowait |-> 0, irq |-> 0, softirq |-> 0]

calculate_load_NoBias(prev, curr) ==
  LET idle_prev == prev.idle + prev.iowait
      idle_curr == curr.idle + curr.iowait
      nidle_prev == prev.user + prev.nice + prev.system + prev.irq + prev.softirq
      nidle_curr == curr.user + curr.nice + curr.system + curr.irq + curr.softirq
      total_delta == DblSub(Dbl(idle_curr + nidle_curr), Dbl(idle_prev + nidle_prev))
      idle_delta == DblSub(Dbl(idle_curr), Dbl(idle_prev))
  IN  DblDiv(DblDiv(DblMul(Dbl(1000), DblSub(total_delta, idle_delta)),
                    total_delta),
             Dbl(10))

calculate_load(prev, curr) ==
  LET idle_prev == prev.idle + prev.iowait
      idle_curr == curr.idle + curr.iowait
      nidle_prev == prev.user + prev.nice + prev.system + prev.irq + prev.softirq
      nidle_curr == curr.user + curr.nice + curr.system + curr.irq + curr.softirq
      total_prev == idle_prev + nidle_prev
      total_curr == idle_curr + nidle_curr
      total_delta == DblSub(Dbl(total_curr), Dbl(total_prev))
      idle_delta == DblSub(Dbl(idle_curr), Dbl(idle_prev))
  IN  DblDiv(DblAdd(DblDiv(DblMul(Dbl(1000), DblSub(total_delta, idle_delta)),
                           total_delta),
                    Dbl(1)),
             Dbl(10))


----------------------------------------------------------------------------
(* Text files as the stdio calls see them: a sequence of whitespace-       *)
(* separated tokens and newlines.  A token is an integer ("int") or any    *)
(* other word ("str"); a stream position is an index into the sequence.    *)

NL == [t |-> "nl", v |-> 0]
IntTok(v) == [t |-> "int", v |-> v]
StrTok(v) == [t |-> "str", v |-> v]

\* fopen() failed: there is no stream.
NoFile == [open |-> FALSE, data |-> <<>>]
File(data) == [open |-> TRUE, data |-> data]

\* The lines ss, all of one width, one after the other.
Concat(ss) ==
  IF ss = <<>> THEN <<>>
  ELSE LET w == Len(ss[1])
       IN  [k \in 1..(w * Len(ss)) |-> 
             ss[((k - 1) \div w) + 1][((k - 1) % w) + 1]]

\* skip_lines(fp, numlines) of utils.c: consumes characters up to and
\* including the numlines-th newline from the current position, or to EOF.
skip_lines(data, p, numlines) ==
  IF numlines <= 0 \/ p > Len(data) THEN p
  ELSE LET nls == {q \in p..Len(data) : data[q].t = "nl"}
       IN  IF Cardinality(nls) < numlines THEN Len(data) + 1
           ELSE 1 + CHOOSE q \in nls :
                      Cardinality({r \in nls : r <= q}) = numlines

\* The white space every fscanf directive used here skips first.
RECURSIVE SkipWs(_, _)
SkipWs(data, p) ==
  IF p <= Len(data) /\ data[p].t = "nl" THEN SkipWs(data, p + 1) ELSE p

\* fscanf "%s": the next word, whatever it is.  ok is FALSE at EOF.
ScanStr(data, p) ==
  LET q == SkipWs(data, p)
  IN  IF q > Len(data) THEN [ok |-> FALSE, p |-> q]
      ELSE [ok |-> TRUE, p |-> q + 1]

\* fscanf "%ld": the next word when it is an integer; a matching failure
\* leaves the word unread and the argument unassigned.
ScanLong(data, p, old) ==
  LET q == SkipWs(data, p)
  IN  IF q <= Len(data) /\ data[q].t = "int"
      THEN [ok |-> TRUE, p |-> q + 1, val |-> data[q].v]
      ELSE [ok |-> FALSE, p |-> q, val |-> old]

\* fscanf(fp, " %s %ld", buff, &x): a label, then the value.
ScanLabelLong(data, p, old) ==
  LET s == ScanStr(data, p)
  IN  IF s.ok THEN ScanLong(data, s.p, old)
      ELSE [ok |-> FALSE, p |-> s.p, val |-> old]

\* k successive "%ld" conversions: the values read until the first failure.
RECURSIVE ScanLongs(_, _, _)
ScanLongs(data, p, k) ==
  IF k = 0 THEN <<>>
  ELSE LET r == ScanLong(data, p, 0)
       IN  IF r.ok THEN <<r.val>> \o ScanLongs(data, r.p, k - 1) ELSE <<>>

----------------------------------------------------------------------------
(* /proc/stat and get_stats.                                               *)

ENOENT == 2
ENOMEM == 12
EACCES == 13

\* The rows /proc/stat shows in Spec (and the garbage an unfilled struct
\* cpustat may hold): a sample, and a later one of the same CPU.
StatRows ==
  { Stat(100, 0, 50, 800, 50, 0, 0),
    Stat(110, 3, 52, 880, 51, 1, 2) }

StatLine(label, r) ==
  <<StrTok(label), IntTok(r.user), IntTok(r.nice), IntTok(r.system),
    IntTok(r.idle), IntTok(r.iowait), IntTok(r.irq), IntTok(r.softirq), NL>>

\* A /proc/stat of nlines lines (the aggregate "cpu" line and the lines of
\* cpu0, cpu1, ...), every one showing the counters r.
StatFile(nlines, r) ==
  File(Concat([j \in 1..nlines |-> StatLine(j - 1, r)]))

ProcStatFiles ==
  {NoFile} \cup {StatFile(n, r) : n \in 0..(MaxCpus + 1), r \in StatRows}

\* get_stats: [ret, stat], stat being *cpu_stat after the call.  The fscanf
\* assigns the counters it converts; a row is complete or absent here.
get_stats(f, cpu, old) ==
  IF ~f.open THEN [ret |-> ENOENT, stat |-> old]
  ELSE LET lskip == cpu + 1
           p == skip_lines(f.data, 1, lskip)
           s == ScanStr(f.data, p)
           v == IF s.ok THEN ScanLongs(f.data, s.p, 7) ELSE <<>>
       IN  [ret |-> 0,
            stat |-> IF Len(v) = 7
                     THEN Stat(v[1], v[2], v[3], v[4], v[5], v[6], v[7])
                     ELSE old]

\* The value a read of a struct cpustat yields: its content, or any garbage
\* when nothing was ever stored in it.
StatReads(s) == IF s.def THEN {s} ELSE StatRows

----------------------------------------------------------------------------
(* /proc/meminfo and its positional readers.                               *)

MemSeeds == {1, 2}

\* The value of line j (0-based) of the meminfo file of seed s: every line
\* of a file has a value of its own.
MemValue(s, j) == 100 * s + j

MemLine(s, j) == <<StrTok(j), IntTok(MemValue(s, j)), StrTok(0), NL>>

\* A /proc/meminfo of n lines "<Label>: <value> kB".
MemFile(n, s) == File(Concat([j \in 1..n |-> MemLine(s, j - 1)]))

ProcMemFiles ==
  {NoFile} \cup {MemFile(n, s) : n \in 0..MaxMemLines, s \in MemSeeds}

get_ram_memory_utilization(f, old) ==
  IF ~f.open THEN [ret |-> ENOENT] @@ old
  ELSE LET r1 == ScanLabelLong(f.data, 1, old.MemTotal)
           p1 == skip_lines(f.data, r1.p, 1)
           r2 == ScanLabelLong(f.data, p1, old.MemFree)
           p2 == skip_lines(f.data, r2.p, 1)
           r3 == ScanLabelLong(f.data, p2, old.MemAvailable)
       IN  [ret |-> 0, MemTotal |-> r1.val, MemFree |-> r2.val,
            MemAvailable |-> r3.val]

get_swap_memory_utilization_Skip15(f, old) ==
  IF ~f.open THEN [ret |-> ENOENT] @@ old
  ELSE LET p0 == skip_lines(f.data, 1, 15)
           r1 == ScanLabelLong(f.data, p0, old.SwapTotal)
           p1 == skip_lines(f.data, r1.p, 1)
           r2 == ScanLabelLong(f.data, p1, old.SwapFree)
       IN  [ret |-> 0, SwapTotal |-> r1.val, SwapFree |-> r2.val]

get_swap_memory_utilization(f, old) ==
  IF ~f.open THEN [ret |-> ENOENT] @@ old
  ELSE LET p0 == skip_lines(f.data, 1, 14)
           r1 == ScanLabelLong(f.data, p0, old.SwapTotal)
           p1 == skip_lines(f.data, r1.p, 1)
           r2 == ScanLabelLong(f.data, p1, old.SwapFree)
       IN  [ret |-> 0, SwapTotal |-> r1.val, SwapFree |-> r2.val]

get_cma_utilization(f, old) ==
  IF ~f.open THEN [ret |-> ENOENT] @@ old
  ELSE LET p0 == skip_lines(f.data, 1, 41)
           r1 == ScanLabelLong(f.data, p0, old.CmaTotal)
           p1 == skip_lines(f.data, r1.p, 1)
           r2 == ScanLabelLong(f.data, p1, old.CmaFree)
       IN  [ret |-> 0, CmaTotal |-> r1.val, CmaFree |-> r2.val]

----------------------------------------------------------------------------
(* Scalar sysfs files: read_int_sysfs_entry and read_float_sysfs_entry.    *)

\* A long or float variable with automatic storage: assigned or not.
Long(v) == [def |-> TRUE, v |-> v]
UninitLong == [def |-> FALSE, v |-> 0]

\* The raw values a sensor file shows (micro-watts, mA, mV, kHz).
Readings == {-1500, 2500}

\* A sysfs attribute: absent (fopen fails), holding one number, or holding
\* a word that is no number.
SysfsFiles ==
  {NoFile, File(<<StrTok(0), NL>>)} \cup {File(<<IntTok(v), NL>>) : v \in Readings}

NoRead ==
  [called |-> FALSE, opened |-> FALSE, err |-> FALSE, nullUse |-> FALSE,
   crashed |-> FALSE, changed |-> FALSE]

\* read_int_sysfs_entry: the outcomes of one call on file f with *val = old.
\* When fopen fails the function prints the error and then still calls
\* fscanf(fp, ...) and fclose(fp) with fp == NULL, which is undefined: the
\* process is killed there, or the calls fail and leave *val as it was.
read_int_sysfs_entry(f, old) ==
  IF f.open
  THEN LET r == ScanLong(f.data, 1, 0)
           new == IF r.ok THEN Long(r.val) ELSE old
       IN  {[crash |-> FALSE, val |-> new,
             read |-> [called |-> TRUE, opened |-> TRUE, err |-> FALSE,
                       nullUse |-> FALSE, crashed |-> FALSE,
                       changed |-> new # old]]}
  ELSE {[crash |-> c, val |-> old,
         read |-> [called |-> TRUE, opened |-> FALSE, err |-> TRUE,
                   nullUse |-> TRUE, crashed |-> c, changed |-> FALSE]]
        : c \in BOOLEAN}

\* read_float_sysfs_entry: as read_int_sysfs_entry, with a "%f" conversion.
read_float_sysfs_entry(f, old) ==
  IF f.open
  THEN LET r == ScanLong(f.data, 1, 0)
           new == IF r.ok THEN Long(r.val) ELSE old
       IN  {[crash |-> FALSE, val |-> new,
             read |-> [called |-> TRUE, opened |-> TRUE, err |-> FALSE,
                       nullUse |-> FALSE, crashed |-> FALSE,
                       changed |-> new # old]]}
  ELSE {[crash |-> c, val |-> old,
         read |-> [called |-> TRUE, opened |-> FALSE, err |-> TRUE,
                   nullUse |-> TRUE, crashed |-> c, changed |-> FALSE]]
        : c \in BOOLEAN}

----------------------------------------------------------------------------
(* /sys/class/hwmon and get_device_hwmon_id.                               *)

DeviceNames == {"ina260_u14", "ams", "foo"}

\* The name attribute of a device that cannot be read (no file, no access).
NoName == "<unreadable>"

\* What the uninitialised device_name[] may hold when the scan starts.
StackNames == DeviceNames \cup {"<junk>"}

\* A tree: whether opendir succeeds (and errno when not), the ids n of the
\* hwmon<n> entries, and the content of each one's name file.
HwmonTrees ==
  { [open |-> o, errno |-> e, ids |-> d, name |-> nm] :
      o \in {TRUE}, e \in {0},
      d \in SUBSET (0..(MaxHwmon - 1)),
      nm \in [0..(MaxHwmon - 1) -> DeviceNames \cup {NoName}] }

\* opendir fails: the directory does not exist, or it may be searched but
\* not listed (the name files below it can still be opened).
UnopenableTrees ==
  { [open |-> FALSE, errno |-> ENOENT, ids |-> {},
     name |-> [n \in 0..(MaxHwmon - 1) |-> NoName]] }
  \cup
  { [t EXCEPT !.open = FALSE, !.errno = EACCES] : t \in HwmonTrees }

\* Trees in which a name is kept only for the entries that exist.
WellFormedTree(t) == \A n \in DOMAIN t.name : n \notin t.ids => t.name[n] = NoName

AllTrees == {t \in HwmonTrees \cup UnopenableTrees : WellFormedTree(t)}

\* count_hwmon_reg_devices: the entries whose name contains "hwmon", or
\* errno when the directory cannot be opened.
count_hwmon_reg_devices(t) ==
  IF ~t.open THEN t.errno ELSE Cardinality(t.ids)

\* read_char_sysfs_entry on hwmon<id>/name: [ret, value], value being the
\* caller's buffer after the call.
read_char_sysfs_entry(t, id, old) ==
  IF id \in t.ids /\ t.name[id] # NoName
  THEN [ret |-> 0, value |-> t.name[id]]
  ELSE [ret |-> ENOENT, value |-> old]

RECURSIVE hwmon_scan(_, _, _, _, _)
hwmon_scan(t, name, id, num_hwmon_devices, device_name) ==
  IF id >= num_hwmon_devices THEN -1
  ELSE LET dn == read_char_sysfs_entry(t, id, device_name).value
       IN  IF name = dn THEN id
           ELSE hwmon_scan(t, name, id + 1, num_hwmon_devices, dn)

\* get_device_hwmon_id(verbose_flag, name), device_name[] starting as garbage.
get_device_hwmon_id(t, name, garbage) ==
  hwmon_scan(t, name, 0, count_hwmon_reg_devices(t), garbage)

----------------------------------------------------------------------------
(* The moving-average buffer.                                              *)

\* movingAvg(ptrArrNumbers, ptrSum, pos, len, nextNum) of utils.c: replaces
\* the slot at pos, keeps the running sum, returns sum / len.
movingAvg(arr, sum, p, l, nextNum) ==
  LET s == sum - arr[p] + nextNum
  IN  [arr |-> [arr EXCEPT ![p] = nextNum], sum |-> s, avg |-> TruncDiv(s, l)]

\* calloc(duration, sizeof(long)): duration zeroed slots.
ZeroArr(n) == [k \in 0..(n - 1) |-> 0]

NextPos_NoWrap(p, cap) == p + 1

\* pos++; if(pos >= duration) pos = 0;
NextPos(p, cap) == IF p + 1 >= cap THEN 0 ELSE p + 1

NextLen_NoSaturate(l, cap) == l + 1

NextLen_Capacity(l, cap) == cap

\* len++; if(len > duration) len = duration;
NextLen(l, cap) == IF l + 1 > cap THEN cap ELSE l + 1

\* One sensor step of the sampling loop: read_int_sysfs_entry into total,
\* then movingAvg of total / scale into arr.  g is the value total holds
\* when it was never assigned; live tells whether arr was allocated.
ina_sample(f, g, total, arr, sum, live, scale) ==
  { IF o.crash \/ ~live
    THEN [crash |-> TRUE, total |-> o.val, arr |-> arr, sum |-> sum, avg |-> 0,
          read |-> o.read]
    ELSE LET t == IF o.val.def THEN o.val ELSE Long(g)
             m == movingAvg(arr, sum, pos, len, TruncDiv(t.v, scale))
         IN  [crash |-> FALSE, total |-> t, arr |-> m.arr, sum |-> m.sum,
              avg |-> m.avg, read |-> o.read]
    : o \in read_int_sysfs_entry(f, total) }

----------------------------------------------------------------------------
(* The state no function is using: locals of functions that are not        *)
(* running hold these values.                                              *)

NoFun == <<>>

CpuIdle ==
  /\ num_cpus_conf = 0 /\ cpu_id = 0
  /\ st0_0 = NoFun /\ st0_1 = NoFun /\ total_util = NoFun /\ cpuLog = <<>>

MemIdle == meminfo = NoFile /\ memOut = NoFun

NoTree ==
  [open |-> FALSE, errno |-> 0, ids |-> {}, name |-> NoFun]

HwmonIdle ==
  hwmonTree = NoTree /\ stackName = "" /\ target = "" /\ hwmon_id = -1

BufIdle ==
  /\ pos = 0 /\ len = 0
  /\ powerarr = NoFun /\ power_sum = 0 /\ power_avg = 0
  /\ currarr = NoFun /\ curr_sum = 0 /\ curr_avg = 0
  /\ volarr = NoFun /\ vol_sum = 0 /\ vol_avg = 0

InaIdle ==
  /\ i = 0
  /\ total_power = UninitLong /\ total_current = UninitLong
  /\ total_voltage = UninitLong

GhostIdle ==
  pushed = <<>> /\ avgs = <<>> /\ inaLog = <<>> /\ filesOpened = TRUE

\* The same, as the next state.
CpuReset ==
  /\ num_cpus_conf' = 0 /\ cpu_id' = 0
  /\ st0_0' = NoFun /\ st0_1' = NoFun /\ total_util' = NoFun /\ cpuLog' = <<>>

MemReset == meminfo' = NoFile /\ memOut' = NoFun

HwmonReset ==
  hwmonTree' = NoTree /\ stackName' = "" /\ target' = "" /\ hwmon_id' = -1

BufReset ==
  /\ pos' = 0 /\ len' = 0
  /\ powerarr' = NoFun /\ power_sum' = 0 /\ power_avg' = 0
  /\ currarr' = NoFun /\ curr_sum' = 0 /\ curr_avg' = 0
  /\ volarr' = NoFun /\ vol_sum' = 0 /\ vol_avg' = 0

InaReset ==
  /\ i' = 0
  /\ total_power' = UninitLong /\ total_current' = UninitLong
  /\ total_voltage' = UninitLong

----------------------------------------------------------------------------
(* print_all_stats(verbose_flag, rate, duration): Spec.                    *)

Sections == <<"cpu", "ram", "swap", "power", "cma", "freq">>

Init ==
  /\ pc = "cpu"
  /\ started = <<>>
  /\ duration \in 0..MaxDuration
  /\ heap = {}
  /\ pauses = 0
  /\ ret = 0
  /\ lastRead = NoRead
  /\ CpuIdle /\ MemIdle /\ HwmonIdle /\ BufIdle /\ InaIdle /\ GhostIdle

LogEntry(e, id, a, b) == [e |-> e, id |-> id, a |-> a, b |-> b]

\* print_cpu_utilization, to the allocation check.
CpuEnter ==
  /\ pc = "cpu"
  /\ started' = Append(started, "cpu")
  /\ \E n \in 1..MaxCpus, m0 \in BOOLEAN, m1 \in BOOLEAN :
       /\ num_cpus_conf' = n
       /\ heap' = heap \cup (IF m0 THEN {"st0_0"} ELSE {})
                       \cup (IF m1 THEN {"st0_1"} ELSE {})
       /\ st0_0' = IF m0 THEN [c \in 0..(n - 1) |-> UninitStat] ELSE NoFun
       /\ st0_1' = IF m1 THEN [c \in 0..(n - 1) |-> UninitStat] ELSE NoFun
       /\ IF m0 /\ m1
          THEN pc' = "cpu_t0" /\ ret' = ret
          ELSE pc' = "cpu_ret" /\ ret' = ENOMEM
  /\ cpu_id' = 0
  /\ UNCHANGED <<duration, pauses, lastRead, total_util, cpuLog, memVars,
                 hwmonVars, bufVars, inaVars, ghostVars>>

\* The first loop: one sample per CPU id at T0.
CpuSampleT0 ==
  /\ pc = "cpu_t0"
  /\ cpu_id < num_cpus_conf
  /\ \E f \in ProcStatFiles :
       st0_0' = [st0_0 EXCEPT ![cpu_id] = get_stats(f, cpu_id, @).stat]
  /\ cpuLog' = Append(cpuLog, LogEntry("t0", cpu_id, cpu_id, cpu_id))
  /\ cpu_id' = cpu_id + 1
  /\ UNCHANGED <<pc, started, duration, heap, pauses, ret, lastRead,
                 num_cpus_conf, st0_1, total_util, memVars, hwmonVars,
                 bufVars, inaVars, ghostVars>>

\* sleep(1); cpu_id = 0;
CpuSleep ==
  /\ pc = "cpu_t0"
  /\ cpu_id >= num_cpus_conf
  /\ pauses' = pauses + 1
  /\ cpuLog' = Append(cpuLog, LogEntry("sleep", 0, 0, 0))
  /\ cpu_id' = 0
  /\ pc' = "cpu_t1"
  /\ UNCHANGED <<started, duration, heap, ret, lastRead, num_cpus_conf,
                 st0_0, st0_1, total_util, memVars, hwmonVars, bufVars,
                 inaVars, ghostVars>>

CpuSampleT1_WrongId ==
  /\ pc = "cpu_t1"
  /\ cpu_id < num_cpus_conf
  /\ \E f \in ProcStatFiles :
       LET s1 == get_stats(f, cpu_id, st0_1[cpu_id]).stat
       IN  /\ st0_1' = [st0_1 EXCEPT ![cpu_id] = s1]
           /\ \E prev \in StatReads(st0_0[0]), curr \in StatReads(s1) :
                total_util' = [c \in DOMAIN total_util \cup {cpu_id} |->
                                 IF c = cpu_id THEN calculate_load(prev, curr)
                                 ELSE total_util[c]]
  /\ cpuLog' = cpuLog \o <<LogEntry("t1", cpu_id, cpu_id, cpu_id),
                           LogEntry("load", cpu_id, 0, cpu_id)>>
  /\ cpu_id' = cpu_id + 1
  /\ UNCHANGED <<pc, started, duration, heap, pauses, ret, lastRead,
                 num_cpus_conf, st0_0, memVars, hwmonVars, bufVars, inaVars,
                 ghostVars>>

\* The second loop: the sample at T1, the load of that CPU id, its print.
CpuSampleT1 ==
  /\ pc = "cpu_t1"
  /\ cpu_id < num_cpus_conf
  /\ \E f \in ProcStatFiles :
       LET s1 == get_stats(f, cpu_id, st0_1[cpu_id]).stat
       IN  /\ st0_1' = [st0_1 EXCEPT ![cpu_id] = s1]
           /\ \E prev \in StatReads(st0_0[cpu_id]), curr \in StatReads(s1) :
                total_util' = [c \in DOMAIN total_util \cup {cpu_id} |->
                                 IF c = cpu_id THEN calculate_load(prev, curr)
                                 ELSE total_util[c]]
  /\ cpuLog' = cpuLog \o <<LogEntry("t1", cpu_id, cpu_id, cpu_id),
                           LogEntry("load", cpu_id, cpu_id, cpu_id)>>
  /\ cpu_id' = cpu_id + 1
  /\ UNCHANGED <<pc, started, duration, heap, pauses, ret, lastRead,
                 num_cpus_conf, st0_0, memVars, hwmonVars, bufVars, inaVars,
                 ghostVars>>

\* free(st0_0); free(st0_1); return(0);
CpuFree ==
  /\ pc = "cpu_t1"
  /\ cpu_id >= num_cpus_conf
  /\ heap' = heap \ {"st0_0", "st0_1"}
  /\ ret' = 0
  /\ pc' = "cpu_ret"
  /\ UNCHANGED <<started, duration, pauses, lastRead, cpuVars, memVars,
                 hwmonVars, bufVars, inaVars, ghostVars>>

\* print_cpu_utilization has returned: its locals are gone.
CpuReturn ==
  /\ pc = "cpu_ret"
  /\ CpuReset
  /\ pauses' = 0
  /\ ret' = 0
  /\ pc' = "ram"
  /\ UNCHANGED <<started, duration, heap, lastRead, memVars, hwmonVars,
                 bufVars, inaVars, ghostVars>>

\* print_ram_memory_utilization, to its return statement.
PrintRam ==
  /\ pc = "ram"
  /\ started' = Append(started, "ram")
  /\ \E f \in ProcMemFiles :
       LET r == get_ram_memory_utilization(
                  f, [MemTotal |-> 0, MemFree |-> 0, MemAvailable |-> 0])
       IN  /\ meminfo' = f
           /\ memOut' = [MemTotal |-> r.MemTotal, MemFree |-> r.MemFree,
                         MemAvailable |-> r.MemAvailable]
           /\ ret' = r.ret
  /\ pc' = "ram_ret"
  /\ UNCHANGED <<duration, heap, pauses, lastRead, cpuVars, hwmonVars,
                 bufVars, inaVars, ghostVars>>

\* A memory section has returned: its locals are gone.
MemReturn ==
  /\ pc \in {"ram_ret", "swap_ret", "cma_ret"}
  /\ MemReset
  /\ ret' = 0
  /\ pc' = CASE pc = "ram_ret" -> "swap"
            [] pc = "swap_ret" -> "power"
            [] pc = "cma_ret" -> "freq"
  /\ UNCHANGED <<started, duration, heap, pauses, lastRead, cpuVars,
                 hwmonVars, bufVars, inaVars, ghostVars>>

\* print_swap_memory_utilization, to its return statement.
PrintSwap ==
  /\ pc = "swap"
  /\ started' = Append(started, "swap")
  /\ \E f \in ProcMemFiles :
       LET r == get_swap_memory_utilization(f, [SwapTotal |-> 0, SwapFree |-> 0])
       IN  /\ meminfo' = f
           /\ memOut' = [SwapTotal |-> r.SwapTotal, SwapFree |-> r.SwapFree]
           /\ ret' = r.ret
  /\ pc' = "swap_ret"
  /\ UNCHANGED <<duration, heap, pauses, lastRead, cpuVars, hwmonVars,
                 bufVars, inaVars, ghostVars>>

\* One step of the sampling loop: what it was (a read of power, current or
\* voltage with its movingAvg, or the sleep), the iteration, the cursor and
\* the length it used, the sample it stored and the average it printed.
InaEntry(e, it, p, l, v, a) ==
  [e |-> e, i |-> it, pos |-> p, len |-> l, v |-> v, avg |-> a]

\* print_power_utilization calls print_ina260_power_info: the three calloc
\* calls and the lookup of the sensor.
InaEnter ==
  /\ pc = "power"
  /\ started' = Append(started, "power")
  /\ pos' = 0
  /\ len' = 0 + 1
  /\ \E a1 \in BOOLEAN, a2 \in BOOLEAN, a3 \in BOOLEAN :
       heap' = heap \cup (IF a1 THEN {"powerarr"} ELSE {})
                    \cup (IF a2 THEN {"currarr"} ELSE {})
                    \cup (IF a3 THEN {"volarr"} ELSE {})
  /\ powerarr' = ZeroArr(duration) /\ power_avg' = 0 /\ power_sum' = 0
  /\ currarr' = ZeroArr(duration) /\ curr_avg' = 0 /\ curr_sum' = 0
  /\ volarr' = ZeroArr(duration) /\ vol_avg' = 0 /\ vol_sum' = 0
  /\ target' = "ina260_u14"
  /\ \E t \in AllTrees, g \in StackNames :
       hwmon_id' = get_device_hwmon_id(t, "ina260_u14", g)
  /\ pc' = "ina_found"
  /\ UNCHANGED <<duration, pauses, ret, lastRead, cpuVars, memVars,
                 hwmonTree, stackName, inaVars, ghostVars>>

\* if(hwmon_id == -1) { ...; return(0); }
InaNotFound ==
  /\ pc = "ina_found"
  /\ hwmon_id = -1
  /\ ret' = 0
  /\ pc' = "ina_ret"
  /\ UNCHANGED <<started, duration, heap, pauses, lastRead, cpuVars, memVars,
                 hwmonVars, bufVars, inaVars, ghostVars>>

\* The sensor was found: the sampling loop starts with i = 0.
InaLoopEnter ==
  /\ pc = "ina_found"
  /\ hwmon_id # -1
  /\ i' = 0
  /\ pc' = "ina_power"
  /\ UNCHANGED <<started, duration, heap, pauses, ret, lastRead, cpuVars,
                 memVars, hwmonVars, bufVars, total_power, total_current,
                 total_voltage, ghostVars>>

\* power1_input: read, movingAvg of total_power / 1000, print.
InaReadPower ==
  /\ pc = "ina_power"
  /\ i < duration
  /\ \E f \in SysfsFiles, g \in Readings :
       \E o \in ina_sample(f, g, total_power, powerarr, power_sum,
                           "powerarr" \in heap, 1000) :
         /\ lastRead' = o.read
         /\ total_power' = o.total
         /\ powerarr' = o.arr /\ power_sum' = o.sum
         /\ power_avg' = IF o.crash THEN power_avg ELSE o.avg
         /\ inaLog' = IF o.crash THEN inaLog
                      ELSE Append(inaLog, InaEntry("power", i, pos, len,
                                                   o.arr[pos], o.avg))
         /\ filesOpened' = (filesOpened /\ o.read.opened)
         /\ pc' = IF o.crash THEN "crashed" ELSE "ina_current"
  /\ UNCHANGED <<started, duration, heap, pauses, ret, cpuVars, memVars,
                 hwmonVars, pos, len, currarr, curr_sum, curr_avg, volarr,
                 vol_sum, vol_avg, i, total_current, total_voltage, pushed,
                 avgs>>

\* curr1_input: read, movingAvg of total_current, print.
InaReadCurrent ==
  /\ pc = "ina_current"
  /\ \E f \in SysfsFiles, g \in Readings :
       \E o \in ina_sample(f, g, total_current, currarr, curr_sum,
                           "currarr" \in heap, 1) :
         /\ lastRead' = o.read
         /\ total_current' = o.total
         /\ currarr' = o.arr /\ curr_sum' = o.sum
         /\ curr_avg' = IF o.crash THEN curr_avg ELSE o.avg
         /\ inaLog' = IF o.crash THEN inaLog
                      ELSE Append(inaLog, InaEntry("current", i, pos, len,
                                                   o.arr[pos], o.avg))
         /\ filesOpened' = (filesOpened /\ o.read.opened)
         /\ pc' = IF o.crash THEN "crashed" ELSE "ina_voltage"
  /\ UNCHANGED <<started, duration, heap, pauses, ret, cpuVars, memVars,
                 hwmonVars, pos, len, powerarr, power_sum, power_avg, volarr,
                 vol_sum, vol_avg, i, total_power, total_voltage, pushed, avgs>>

\* in1_input: read, movingAvg of total_voltage, print.
InaReadVoltage ==
  /\ pc = "ina_voltage"
  /\ \E f \in SysfsFiles, g \in Readings :
       \E o \in ina_sample(f, g, total_voltage, volarr, vol_sum,
                           "volarr" \in heap, 1) :
         /\ lastRead' = o.read
         /\ total_voltage' = o.total
         /\ volarr' = o.arr /\ vol_sum' = o.sum
         /\ vol_avg' = IF o.crash THEN vol_avg ELSE o.avg
         /\ inaLog' = IF o.crash THEN inaLog
                      ELSE Append(inaLog, InaEntry("voltage", i, pos, len,
                                                   o.arr[pos], o.avg))
         /\ filesOpened' = (filesOpened /\ o.read.opened)
         /\ pc' = IF o.crash THEN "crashed" ELSE "ina_advance"
  /\ UNCHANGED <<started, duration, heap, pauses, ret, cpuVars, memVars,
                 hwmonVars, pos, len, powerarr, power_sum, power_avg, currarr,
                 curr_sum, curr_avg, i, total_power, total_current, pushed,
                 avgs>>

\* The end of the loop body: the cursor, the length, sleep(rate), i++.
InaAdvance ==
  /\ pc = "ina_advance"
  /\ pos' = NextPos(pos, duration)
  /\ len' = NextLen(len, duration)
  /\ pauses' = pauses + 1
  /\ inaLog' = Append(inaLog, InaEntry("sleep", i, pos, len, 0, 0))
  /\ i' = i + 1
  /\ pc' = "ina_power"
  /\ UNCHANGED <<started, duration, heap, ret, lastRead, cpuVars, memVars,
                 hwmonVars, powerarr, power_sum, power_avg, currarr, curr_sum,
                 curr_avg, volarr, vol_sum, vol_avg, total_power,
                 total_current, total_voltage, pushed, avgs, filesOpened>>

\* The loop is over: free(powerarr); free(currarr); free(volarr); return(0);
InaFree ==
  /\ pc = "ina_power"
  /\ i >= duration
  /\ heap' = heap \ {"powerarr", "currarr", "volarr"}
  /\ ret' = 0
  /\ pc' = "ina_ret"
  /\ UNCHANGED <<started, duration, pauses, lastRead, cpuVars, memVars,
                 hwmonVars, bufVars, inaVars, ghostVars>>

\* print_ina260_power_info has returned: its locals are gone.
InaReturn ==
  /\ pc = "ina_ret"
  /\ BufReset /\ InaReset /\ HwmonReset
  /\ pauses' = 0
  /\ lastRead' = NoRead
  /\ inaLog' = <<>>
  /\ filesOpened' = TRUE
  /\ pc' = "sysmon"
  /\ UNCHANGED <<started, duration, heap, ret, cpuVars, memVars, pushed, avgs>>

\* The number of attributes print_sysmon_power_info reads.
NumSysmonReads == 11

\* print_sysmon_power_info: the lookup of the on-chip monitor.
SysmonEnter ==
  /\ pc = "sysmon"
  /\ target' = "ams"
  /\ \E t \in AllTrees, g \in StackNames :
       hwmon_id' = get_device_hwmon_id(t, "ams", g)
  /\ pc' = "sysmon_found"
  /\ UNCHANGED <<started, duration, heap, pauses, ret, lastRead, cpuVars,
                 memVars, hwmonTree, stackName, bufVars, inaVars, ghostVars>>

\* if(hwmon_id == -1) { ...; return(0); }
SysmonNotFound ==
  /\ pc = "sysmon_found"
  /\ hwmon_id = -1
  /\ HwmonReset
  /\ ret' = 0
  /\ pc' = "cma"
  /\ UNCHANGED <<started, duration, heap, pauses, lastRead, cpuVars, memVars,
                 bufVars, inaVars, ghostVars>>

SysmonLoopEnter ==
  /\ pc = "sysmon_found"
  /\ hwmon_id # -1
  /\ i' = 0
  /\ pc' = "sysmon_read"
  /\ UNCHANGED <<started, duration, heap, pauses, ret, lastRead, cpuVars,
                 memVars, hwmonVars, bufVars, total_power, total_current,
                 total_voltage, ghostVars>>

\* The i-th of the eleven read_int_sysfs_entry calls.
SysmonRead ==
  /\ pc = "sysmon_read"
  /\ i < NumSysmonReads
  /\ \E f \in SysfsFiles :
       \E o \in read_int_sysfs_entry(f, UninitLong) :
         /\ lastRead' = o.read
         /\ pc' = IF o.crash THEN "crashed" ELSE pc
  /\ i' = i + 1
  /\ UNCHANGED <<started, duration, heap, pauses, ret, cpuVars, memVars,
                 hwmonVars, bufVars, total_power, total_current,
                 total_voltage, ghostVars>>

\* The prints, return(0).
SysmonReturn ==
  /\ pc = "sysmon_read"
  /\ i >= NumSysmonReads
  /\ HwmonReset /\ InaReset
  /\ lastRead' = NoRead
  /\ ret' = 0
  /\ pc' = "cma"
  /\ UNCHANGED <<started, duration, heap, pauses, cpuVars, memVars, bufVars,
                 ghostVars>>

\* print_cma_utilization, to its return statement.
PrintCma ==
  /\ pc = "cma"
  /\ started' = Append(started, "cma")
  /\ \E f \in ProcMemFiles :
       LET r == get_cma_utilization(f, [CmaTotal |-> 0, CmaFree |-> 0])
       IN  /\ meminfo' = f
           /\ memOut' = [CmaTotal |-> r.CmaTotal, CmaFree |-> r.CmaFree]
           /\ ret' = r.ret
  /\ pc' = "cma_ret"
  /\ UNCHANGED <<duration, heap, pauses, lastRead, cpuVars, hwmonVars,
                 bufVars, inaVars, ghostVars>>

\* print_cpu_frequency, to its loop.
FreqEnter ==
  /\ pc = "freq"
  /\ started' = Append(started, "freq")
  /\ \E n \in 1..MaxCpus : num_cpus_conf' = n
  /\ cpu_id' = 0
  /\ pc' = "freq_loop"
  /\ UNCHANGED <<duration, heap, pauses, ret, lastRead, st0_0, st0_1,
                 total_util, cpuLog, memVars, hwmonVars, bufVars, inaVars,
                 ghostVars>>

\* get_cpu_frequency(cpu_id, &cpu_freq) and the print.
FreqRead ==
  /\ pc = "freq_loop"
  /\ cpu_id < num_cpus_conf
  /\ \E f \in SysfsFiles :
       \E o \in read_float_sysfs_entry(f, Long(0)) :
         /\ lastRead' = o.read
         /\ pc' = IF o.crash THEN "crashed" ELSE pc
  /\ cpu_id' = cpu_id + 1
  /\ UNCHANGED <<started, duration, heap, pauses, ret, num_cpus_conf, st0_0,
                 st0_1, total_util, cpuLog, memVars, hwmonVars, bufVars,
                 inaVars, ghostVars>>

\* print_cpu_frequency and print_all_stats return.
FreqReturn ==
  /\ pc = "freq_loop"
  /\ cpu_id >= num_cpus_conf
  /\ CpuReset
  /\ lastRead' = NoRead
  /\ ret' = 0
  /\ pc' = "done"
  /\ UNCHANGED <<started, duration, heap, pauses, memVars, hwmonVars,
                 bufVars, inaVars, ghostVars>>

Next ==
  \/ CpuEnter \/ CpuSampleT0 \/ CpuSleep \/ CpuSampleT1 \/ CpuFree \/ CpuReturn
  \/ PrintRam \/ PrintSwap \/ MemReturn
  \/ InaEnter \/ InaNotFound \/ InaLoopEnter \/ InaReadPower
  \/ InaReadCurrent \/ InaReadVoltage \/ InaAdvance \/ InaFree \/ InaReturn
  \/ SysmonEnter \/ SysmonNotFound \/ SysmonLoopEnter \/ SysmonRead
  \/ SysmonReturn
  \/ PrintCma \/ FreqEnter \/ FreqRead \/ FreqReturn

Spec == Init /\ [][Next]_vars

----------------------------------------------------------------------------
(* calculate_load on bounded pairs of samples: LoadSpec.                   *)

\* The first samples: every counter in 0..MaxTick.
LoadPrevs ==
  { Stat(u, n, s, id, io, ir, so) :
      u \in 0..MaxTick, n \in 0..MaxTick, s \in 0..MaxTick,
      id \in 0..MaxTick, io \in 0..MaxTick, ir \in 0..MaxTick,
      so \in 0..MaxTick }

\* What a counter may move by between the two samples.
DeltaValues == {-1, 0, 1, 2}

\* The changes between the samples: at most two counters move.
DeltaRows ==
  { [c \in CounterNames |-> IF c = a THEN x ELSE IF c = b THEN y ELSE 0] :
      a \in CounterNames, b \in CounterNames, x \in DeltaValues,
      y \in DeltaValues }

AddDelta(p, d) ==
  Stat(p.user + d["user"], p.nice + d["nice"], p.system + d["system"],
       p.idle + d["idle"], p.iowait + d["iowait"], p.irq + d["irq"],
       p.softirq + d["softirq"])

NonNegative(r) ==
  /\ r.user >= 0 /\ r.nice >= 0 /\ r.system >= 0 /\ r.idle >= 0
  /\ r.iowait >= 0 /\ r.irq >= 0 /\ r.softirq >= 0

LoadInit ==
  /\ pc = "load"
  /\ started = <<>> /\ duration = 0 /\ heap = {} /\ pauses = 0 /\ ret = 0
  /\ lastRead = NoRead
  /\ num_cpus_conf = 1 /\ cpu_id = 0
  /\ \E p \in LoadPrevs, d \in DeltaRows :
       /\ NonNegative(AddDelta(p, d))
       /\ st0_0 = [c \in {0} |-> p]
       /\ st0_1 = [c \in {0} |-> AddDelta(p, d)]
  /\ total_util = NoFun /\ cpuLog = <<>>
  /\ MemIdle /\ HwmonIdle /\ BufIdle /\ InaIdle /\ GhostIdle

\* st0_1[0].total_util = calculate_load(&st0_0[0], &st0_1[0]);
LoadStep ==
  /\ pc = "load"
  /\ total_util' = [c \in {0} |-> calculate_load(st0_0[0], st0_1[0])]
  /\ pc' = "loaded"
  /\ UNCHANGED <<started, duration, heap, pauses, ret, lastRead,
                 num_cpus_conf, cpu_id, st0_0, st0_1, cpuLog, memVars,
                 hwmonVars, bufVars, inaVars, ghostVars>>

LoadSpec == LoadInit /\ [][LoadStep]_vars

----------------------------------------------------------------------------
(* get_device_hwmon_id on bounded hwmon trees: HwmonSpec.                  *)

HwmonInit ==
  /\ pc = "hwmon"
  /\ started = <<>> /\ duration = 0 /\ heap = {} /\ pauses = 0 /\ ret = 0
  /\ lastRead = NoRead
  /\ hwmonTree \in AllTrees
  /\ stackName \in StackNames
  /\ target \in {"ina260_u14", "ams"}
  /\ hwmon_id = -1
  /\ CpuIdle /\ MemIdle /\ BufIdle /\ InaIdle /\ GhostIdle

\* hwmon_id = get_device_hwmon_id(verbose_flag, target);
HwmonLookup ==
  /\ pc = "hwmon"
  /\ hwmon_id' = get_device_hwmon_id(hwmonTree, target, stackName)
  /\ pc' = "hwmon_done"
  /\ UNCHANGED <<started, duration, heap, pauses, ret, lastRead, cpuVars,
                 memVars, hwmonTree, stackName, target, bufVars, inaVars,
                 ghostVars>>

HwmonSpec == HwmonInit /\ [][HwmonLookup]_vars

----------------------------------------------------------------------------
(* The moving-average buffer pushed any number of times: BufSpec.          *)
(* The buffer is powerarr with its sum, cursor and length; duration is its *)
(* capacity.                                                               *)

BufValues == {-7, 10, 20, 30, 40}

BufInit ==
  /\ pc = "buf"
  /\ started = <<>> /\ heap = {"powerarr"} /\ pauses = 0 /\ ret = 0
  /\ lastRead = NoRead
  /\ duration \in 1..MaxCap
  /\ pos = 0 /\ len = 0 + 1
  /\ powerarr = ZeroArr(duration) /\ power_sum = 0 /\ power_avg = 0
  /\ currarr = NoFun /\ curr_sum = 0 /\ curr_avg = 0
  /\ volarr = NoFun /\ vol_sum = 0 /\ vol_avg = 0
  /\ CpuIdle /\ MemIdle /\ HwmonIdle /\ InaIdle /\ GhostIdle

\* One push: movingAvg, then the cursor and the length as the loop body
\* of print_ina260_power_info moves them.
BufPush ==
  /\ pc = "buf"
  /\ Len(pushed) < MaxPushes
  /\ \E v \in BufValues :
       LET m == movingAvg(powerarr, power_sum, pos, len, v)
       IN  /\ powerarr' = m.arr
           /\ power_sum' = m.sum
           /\ power_avg' = m.avg
           /\ pushed' = Append(pushed, v)
           /\ avgs' = Append(avgs, m.avg)
  /\ pos' = NextPos(pos, duration)
  /\ len' = NextLen(len, duration)
  /\ UNCHANGED <<pc, started, duration, heap, pauses, ret, lastRead, cpuVars,
                 memVars, hwmonVars, currarr, curr_sum, curr_avg, volarr,
                 vol_sum, vol_avg, inaVars, inaLog, filesOpened>>

BufSpec == BufInit /\ [][BufPush]_vars

----------------------------------------------------------------------------
(* Properties.                                                             *)

Min(a, b) == IF a < b THEN a ELSE b

\* The truncating mean of the last Min(k, c) of the first k pushed values.
WindowMean(vals, k, c) ==
  TruncDiv(SumSeq(LastN(SubSeq(vals, 1, k), Min(k, c))), Min(k, c))

\* C1: for every capacity c > 0 and every sequence of pushed values, the
\* k-th push of the moving-average buffer returns the truncating integer
\* mean of the last min(k, c) pushed values (the oldest value is evicted
\* once the buffer is full).
C1_PushReturnsWindowMean ==
  pc = "buf" =>
    /\ Len(avgs) = Len(pushed)
    /\ \A k \in 1..Len(pushed) : avgs[k] = WindowMean(pushed, k, duration)

\* C1 witness: capacity 3, pushes [10, 20, 30, 40], averages [10, 15, 20, 30].
C1_Witness ==
  /\ pc = "buf" /\ duration = 3
  /\ pushed = <<10, 20, 30, 40>>
  /\ avgs = <<10, 15, 20, 30>>

\* The deltas of the formula, computed from the counters of two samples.
IdleDelta(prev, curr) == (curr.idle + curr.iowait) - (prev.idle + prev.iowait)

NonIdleDelta(prev, curr) ==
  (curr.user + curr.nice + curr.system + curr.irq + curr.softirq)
  - (prev.user + prev.nice + prev.system + prev.irq + prev.softirq)

TotalDelta(prev, curr) == IdleDelta(prev, curr) + NonIdleDelta(prev, curr)

\* The double u is exactly the rational a / b (b > 0).
IsRatio(u, a, b) == u.k = "num" /\ u.d > 0 /\ u.n * b = a * u.d

\* C2: for every pair of samples with total_delta > 0, calculate_load
\* returns exactly (1000 * (total_delta - idle_delta) / total_delta + 1) / 10,
\* that is (1000 * (total_delta - idle_delta) + total_delta) / (10 * total_delta).
C2_LoadMatchesFormula ==
  pc = "loaded" =>
    LET td == TotalDelta(st0_0[0], st0_1[0])
        id == IdleDelta(st0_0[0], st0_1[0])
    IN  td > 0 => IsRatio(total_util[0], 1000 * (td - id) + td, 10 * td)

\* C2 witness: total_delta = 2 and idle_delta = 1 give 50.1.
C2_Witness ==
  /\ pc = "loaded"
  /\ TotalDelta(st0_0[0], st0_1[0]) = 2
  /\ IdleDelta(st0_0[0], st0_1[0]) = 1
  /\ IsRatio(total_util[0], 501, 10)

\* The explicit failure the load computation is to end with when the total
\* delta is zero.
InvalidState == [k |-> "invalid", n |-> 0, d |-> 0]

\* C3: for every pair of samples with total_delta == 0 the utilization
\* computation fails with InvalidState and returns no value (no NaN, no
\* infinity) that is printed as a CPU load.
C3_ZeroDeltaIsInvalidState ==
  \A c \in DOMAIN total_util :
    ( /\ st0_0[c].def /\ st0_1[c].def
      /\ TotalDelta(st0_0[c], st0_1[c]) = 0 )
    => total_util[c] = InvalidState

\* C4: when the path of a readInt/readFloat call cannot be opened, the read
\* reports an I/O error, performs no read or close on the unopened handle,
\* leaves the output value unchanged and returns control to the calling
\* section (no crash).
C4_FailedOpenIsHandled ==
  (lastRead.called /\ ~lastRead.opened) =>
    /\ lastRead.err
    /\ ~lastRead.nullUse
    /\ ~lastRead.changed
    /\ ~lastRead.crashed
    /\ pc # "crashed"

IsPrefix(s, t) == Len(s) <= Len(t) /\ s = SubSeq(t, 1, Len(s))

\* C5: in every run of print_all_stats all six report sections are started,
\* in order, whatever failed in an earlier section.
C5_AllSectionsStarted ==
  /\ IsPrefix(started, Sections)
  /\ pc \in {"done", "crashed"} => started = Sections

\* The ids the specification's resolveId scans: [0, countDevices), nothing
\* when the root cannot be opened.
ClaimedRange(t) == IF t.open THEN 0..(Cardinality(t.ids) - 1) ELSE {}

HasName(t, id, name) == id \in t.ids /\ t.name[id] = name

\* C6: get_device_hwmon_id returns the smallest id in [0, countDevices)
\* whose name file content equals the target, returns -1 when no device has
\* that name, and never returns the id of a device whose name differs.
C6_LookupReturnsFirstMatch ==
  pc = "hwmon_done" =>
    LET t == hwmonTree
        matches == {id \in ClaimedRange(t) : HasName(t, id, target)}
    IN  /\ matches # {} =>
             hwmon_id \in matches /\ \A m \in matches : hwmon_id <= m
        /\ (\A id \in t.ids : t.name[id] # target) => hwmon_id = -1
        /\ hwmon_id # -1 => HasName(t, hwmon_id, target)

\* The lines of a file: the tokens between the newlines.
NlPositions(data) == {q \in 1..Len(data) : data[q].t = "nl"}

\* The position of the n-th newline of data (n >= 1).
NthNl(data, n) ==
  CHOOSE q \in NlPositions(data) :
    Cardinality({r \in NlPositions(data) : r <= q}) = n

\* The lines of data, each without its newline.
SplitLines(data) ==
  [n \in 1..Cardinality(NlPositions(data)) |->
     SubSeq(data, IF n = 1 THEN 1 ELSE NthNl(data, n - 1) + 1,
            NthNl(data, n) - 1)]

NumLines(f) == Cardinality(NlPositions(f.data))

\* The integer of line j (0-based) of a "<Label>: <value> kB" file.
IntOnLine(f, j) == SplitLines(f.data)[j + 1][2].v

\* Field fld of the printed values is the integer of line j when the file
\* has such a line.
TakenFrom(fld, j) ==
  (meminfo.open /\ NumLines(meminfo) > j) => memOut[fld] = IntOnLine(meminfo, j)

\* C7 as stated: MemTotal from line 0, MemFree from line 2, MemAvailable
\* from line 4, SwapTotal from line 14, SwapFree from line 16, CmaTotal from
\* line 41 and CmaFree from line 43.
C7_LinesAsStated ==
  /\ pc = "ram_ret" =>
       TakenFrom("MemTotal", 0) /\ TakenFrom("MemFree", 2)
       /\ TakenFrom("MemAvailable", 4)
  /\ pc = "swap_ret" => TakenFrom("SwapTotal", 14) /\ TakenFrom("SwapFree", 16)
  /\ pc = "cma_ret" => TakenFrom("CmaTotal", 41) /\ TakenFrom("CmaFree", 43)

\* C7 amended: on a memory-info file with one '<Label>: <value> kB' entry
\* per line the readers take MemTotal from line 0, MemFree from line 1,
\* MemAvailable from line 2, SwapTotal from line 14, SwapFree from line 15,
\* CmaTotal from line 41 and CmaFree from line 42 (0-based), each value
\* being exactly the integer on that line.
C7_ReadersTakeConsecutiveLines ==
  /\ pc = "ram_ret" =>
       TakenFrom("MemTotal", 0) /\ TakenFrom("MemFree", 1)
       /\ TakenFrom("MemAvailable", 2)
  /\ pc = "swap_ret" => TakenFrom("SwapTotal", 14) /\ TakenFrom("SwapFree", 15)
  /\ pc = "cma_ret" => TakenFrom("CmaTotal", 41) /\ TakenFrom("CmaFree", 42)

\* C7 witness: the swap reader has read a file that has line 16 and printed
\* the values of lines 14 and 15.
C7_Witness ==
  /\ pc = "swap_ret" /\ meminfo.open /\ NumLines(meminfo) > 16
  /\ memOut.SwapTotal = IntOnLine(meminfo, 14)
  /\ memOut.SwapFree = IntOnLine(meminfo, 15)
  /\ memOut.SwapFree # IntOnLine(meminfo, 16)

\* The positions of print_ina260_power_info after its buffers are built.
InaBuilt ==
  {"ina_found", "ina_power", "ina_current", "ina_voltage", "ina_advance"}

\* C8: constructing the moving-average buffers with capacity 0 (duration 0)
\* fails explicitly at construction: the function never goes on with such
\* buffers and returns an error.
C8_ZeroCapacityRejected ==
  (duration = 0 /\ "power" \in {started[k] : k \in DOMAIN started}) =>
    /\ pc \notin InaBuilt
    /\ pc = "ina_ret" => ret # 0

\* The sum of the slots of arr within the logical length l.
RECURSIVE SumWithin(_, _)
SumWithin(arr, l) == IF l <= 0 THEN 0 ELSE arr[l - 1] + SumWithin(arr, l - 1)

InaLoop == {"ina_power", "ina_current", "ina_voltage", "ina_advance"}

\* C9: in every state of the power-sampling loop the write cursor is in
\* [0, capacity), the logical length is in [1, capacity], and the running
\* sum of each of the three buffers equals the sum of its stored elements
\* within the logical length.
C9_BufferInvariant ==
  (pc \in InaLoop /\ duration > 0) =>
    /\ pos \in 0..(duration - 1)
    /\ len \in 1..duration
    /\ power_sum = SumWithin(powerarr, len)
    /\ curr_sum = SumWithin(currarr, len)
    /\ vol_sum = SumWithin(volarr, len)

\* C9 witness: the second iteration has pushed into all three buffers.
C9_Witness ==
  /\ pc = "ina_advance" /\ i = 1 /\ pos = 1 /\ len = 2
  /\ powerarr[0] # 0 /\ powerarr[1] # 0
  /\ currarr[1] # 0 /\ volarr[1] # 0

\* What print_cpu_utilization does with n CPUs whose arrays are allocated.
ExpectedCpuLog(n) ==
  [k \in 1..n |-> LogEntry("t0", k - 1, k - 1, k - 1)]
  \o <<LogEntry("sleep", 0, 0, 0)>>
  \o [k \in 1..(2 * n) |->
        IF k % 2 = 1 THEN LogEntry("t1", (k - 1) \div 2, (k - 1) \div 2, (k - 1) \div 2)
        ELSE LogEntry("load", (k - 2) \div 2, (k - 2) \div 2, (k - 2) \div 2)]

\* C10 as stated: exactly one pause per invocation, all first samples
\* before it, every second sample and load after it.
C10_OnePausePerInvocation ==
  pc = "cpu_ret" => pauses = 1 /\ cpuLog = ExpectedCpuLog(num_cpus_conf)

\* C10 amended: in every invocation of print_cpu_utilization whose two
\* allocations succeed, the first sample of every configured CPU id is taken
\* before the one-second pause and its second sample after it, there is
\* exactly one pause, and each load is computed from the first and second
\* samples of the same CPU id; when an allocation fails the function
\* returns without a sample and without a pause.
C10_SamplingOrder ==
  /\ pc \in {"cpu_t0", "cpu_t1", "cpu_ret"} =>
       /\ pauses <= 1
       /\ IsPrefix(cpuLog, ExpectedCpuLog(num_cpus_conf))
       /\ \A c \in DOMAIN total_util :
            (st0_0[c].def /\ st0_1[c].def) =>
              total_util[c] = calculate_load(st0_0[c], st0_1[c])
  /\ pc = "cpu_ret" =>
       IF ret = 0
       THEN pauses = 1 /\ cpuLog = ExpectedCpuLog(num_cpus_conf)
       ELSE pauses = 0 /\ cpuLog = <<>>

\* C10 witness: two CPUs were sampled twice around the pause and the load
\* of CPU 1 comes from its own two samples.
C10_Witness ==
  /\ pc = "cpu_ret" /\ ret = 0 /\ num_cpus_conf = 2 /\ pauses = 1
  /\ st0_0[1].def /\ st0_1[1].def /\ st0_0[0] # st0_0[1]
  /\ total_util[1] = calculate_load(st0_0[1], st0_1[1])
  /\ total_util[1] # calculate_load(st0_0[0], st0_1[1])

----------------------------------------------------------------------------
(* The sampling loop of print_ina260_power_info.                           *)

\* The steps of the loop so far: what each was and in which iteration.
InaEvents == [k \in 1..Len(inaLog) |-> <<inaLog[k].e, inaLog[k].i>>]

\* d iterations: power, current, voltage, pause, in that order.
ExpectedInaEvents(d) ==
  [k \in 1..(4 * d) |->
     << CASE k % 4 = 1 -> "power"
          [] k % 4 = 2 -> "current"
          [] k % 4 = 3 -> "voltage"
          [] OTHER -> "sleep",
        (k - 1) \div 4 >>]

\* print_ina260_power_info is running, or stopped, past a successful lookup.
InaFound ==
  /\ target = "ina260_u14" /\ hwmon_id # -1
  /\ pc \in InaLoop \cup {"ina_ret", "crashed"}

\* Every sensor file the loop has asked for so far was opened.
InaAllOpened == filesOpened

\* C11: when the power sensor is found and all its files open, the
\* sampling loop ends after exactly duration iterations, for every
\* duration >= 0: the process does not die in the loop, each iteration
\* reads power, then current, then voltage once, in that order, and a
\* pause separates every two successive iterations.
C11_LoopRunsDurationIterations ==
  (InaFound /\ InaAllOpened) =>
    /\ pc # "crashed"
    /\ IsPrefix(InaEvents, ExpectedInaEvents(duration))
    /\ pc = "ina_ret" => i = duration /\ InaEvents = ExpectedInaEvents(duration)

\* The part of C11 the code keeps: with the three buffers allocated, a
\* found sensor and all files opening, the loop ends after exactly duration
\* iterations of power, current, voltage, pause (the pause follows the last
\* iteration too).
InaLoopWithBuffers ==
  (InaFound /\ InaAllOpened /\ {"powerarr", "currarr", "volarr"} \subseteq heap) =>
    /\ pc # "crashed"
    /\ IsPrefix(InaEvents, ExpectedInaEvents(duration))

----------------------------------------------------------------------------
(* The heap buffers of print_cpu_utilization and print_ina260_power_info.  *)

CpuBuffers == {"st0_0", "st0_1"}

InaBuffers == {"powerarr", "currarr", "volarr"}

\* C12: on every return path of print_ina260_power_info and of
\* print_cpu_utilization (normal completion, device not found, allocation
\* failure) no buffer the function allocated is still live when the
\* function returns.
C12_NoBufferLiveAtReturn ==
  /\ pc = "cpu_ret" => heap \cap CpuBuffers = {}
  /\ pc = "ina_ret" => heap \cap InaBuffers = {}

----------------------------------------------------------------------------
(* The buffers of print_ina260_power_info: capacity = iteration count.     *)

\* The buffer the samples of a kind go to.
KindArr(kind) ==
  CASE kind = "power" -> powerarr
    [] kind = "current" -> currarr
    [] kind = "voltage" -> volarr

\* No sample of any kind before the first step of the loop.
NoSamples ==
  [kind \in {"power", "current", "voltage"} |-> [n |-> 0, sum |-> 0]]

\* From step k on, every push is the (n + 1)-th of its kind with n = i, and
\* its average is the truncating mean of all the samples of its kind so
\* far; seen[kind] is the number and the sum of the samples before step k.
RECURSIVE MeansOfAllFrom(_, _)
MeansOfAllFrom(k, seen) ==
  IF k > Len(inaLog) THEN TRUE
  ELSE LET step == inaLog[k]
       IN  IF step.e = "sleep" THEN MeansOfAllFrom(k + 1, seen)
           ELSE LET n == seen[step.e].n + 1
                    sum == seen[step.e].sum + step.v
                IN  /\ n = step.i + 1
                    /\ step.avg = TruncDiv(sum, n)
                    /\ MeansOfAllFrom(k + 1, [seen EXCEPT ![step.e] =
                                                [n |-> n, sum |-> sum]])

\* C13: in print_ina260_power_info the i-th push (0-based) of each buffer
\* uses cursor i and logical length i + 1, no slot holding a sample is
\* overwritten while the loop runs, and every reported average is the
\* truncating mean of all the samples pushed to that buffer since the
\* start of the call.
C13_AverageOverAllSamples ==
  /\ \A k \in DOMAIN inaLog :
       inaLog[k].e # "sleep" =>
         /\ inaLog[k].pos = inaLog[k].i
         /\ inaLog[k].len = inaLog[k].i + 1
         /\ KindArr(inaLog[k].e)[inaLog[k].i] = inaLog[k].v
  /\ MeansOfAllFrom(1, NoSamples)

\* C13 witness: three iterations are over and the third current average is
\* the mean of -1500, -1500 and 2500 truncated toward zero.
C13_Witness ==
  /\ pc = "ina_ret" /\ duration = 3 /\ Len(inaLog) = 12
  /\ inaLog[2].v = -1500 /\ inaLog[6].v = -1500
  /\ inaLog[10].e = "current" /\ inaLog[10].v = 2500
  /\ inaLog[10].len = 3 /\ inaLog[10].avg = -166

============================================================================
